---- MODULE Spec2Model ----
(***************************************************************************)
(* Model of malbi's rendering-context bootstrap (BaseConfig::init), of its *)
(* teardown (impl Drop for BaseConfig) and of the winit application shell  *)
(* that drives both (Application::resumed / window_event, main).           *)
(*                                                                         *)
(* The machine the program runs on (adapters, surface capabilities,        *)
(* formats, present modes, window size) is fixed in Init; what the driver  *)
(* decides at a call (a creation succeeding, presentation support, the     *)
(* number of swapchain images) is drawn at the step that makes the call.   *)
(***************************************************************************)
EXTENDS Integers, Sequences, FiniteSets, TLC

VARIABLES
    pc,                    \* position of the program (stage of init, or lifecycle)
    failed_at,             \* the stage whose expect()/index panicked, or "none"
    gen,                   \* number of "resumed" signals handled so far
    window,                \* Application.window: 0 = None, g = window of resume g
    base_config,           \* Application.base_config: 0 = None, g = context g
    adapters,              \* enumerate_physical_devices() of this machine
    surface_capabilities,  \* get_physical_device_surface_capabilities()
    surface_formats,       \* get_physical_device_surface_formats()
    present_modes,         \* get_physical_device_surface_present_modes()
    window_dimensions,     \* window.inner_size()
    resume_signals,        \* how many "resumed" signals the platform delivers
    layer_properties,      \* enumerate_instance_layer_properties(): the layer names
    used_layer_names,      \* the layer names check_validation_layer_support is given
    capability_mask,       \* the queue_flag find_queue_family_index is given
    validation_layers_enabled, \* create_instance's validation_layers_enabled
    device_queue_infos,    \* create_device's device_queue_infos
    physical_device,       \* init's physical_device (position in adapters), 0 = unset
    queue_family_indexes,  \* init's queue_family_indexes
    present_support,       \* answer of get_physical_device_surface_support
    graphics_queue,        \* init's graphics_queue
    presentation_queue,    \* init's presentation_queue (None or a queue)
    surface_format,        \* init's surface_format
    present_mode,          \* init's present_mode
    swap_extent,           \* init's swap_extent
    desired_image_count,   \* init's desired_image_count
    swapchain_images,      \* get_swapchain_images()
    swapchain_image_views, \* init's swapchain_image_views
    framebuffers,          \* init's framebuffers
    created,               \* log of objects created, in creation order
    destroyed              \* log of objects destroyed, in destruction order

vars == <<pc, failed_at, gen, window, base_config, adapters, surface_capabilities,
          surface_formats, present_modes, window_dimensions, resume_signals, physical_device,
          queue_family_indexes, present_support, graphics_queue,
          presentation_queue, surface_format, present_mode, swap_extent,
          desired_image_count, swapchain_images, swapchain_image_views,
          framebuffers, created, destroyed, layer_properties, used_layer_names,
          capability_mask, validation_layers_enabled, device_queue_infos>>

(***************************************************************************)
(* Bounds of the model.                                                    *)
(***************************************************************************)
MaxAdapters == 2
MaxFamilies == 2
MaxImageCount == 3
MaxExtent == 2
MaxFormats == 2
MaxModes == 2
MaxExtraImages == 1
MaxResumes == 2
MaxLayers == 2

(***************************************************************************)
(* Values of the graphics API.                                             *)
(***************************************************************************)
\* Option<T>: None, or Some(v); a local not yet assigned is None as well
None == <<>>
Some(v) == <<v>>
GRAPHICS == {"GRAPHICS"}
COMPUTE == {"COMPUTE"}
\* a compute-only family, and a family for graphics and compute
QueueFlagSets == {COMPUTE, GRAPHICS \cup COMPUTE}
INTEGRATED_GPU == "INTEGRATED_GPU"
DISCRETE_GPU == "DISCRETE_GPU"
DeviceTypes == {INTEGRATED_GPU, DISCRETE_GPU}
B8G8R8A8_SRGB == "B8G8R8A8_SRGB"
B8G8R8A8_UNORM == "B8G8R8A8_UNORM"
R8G8B8A8_UNORM == "R8G8B8A8_UNORM"
Formats == {B8G8R8A8_SRGB, B8G8R8A8_UNORM, R8G8B8A8_UNORM}
SRGB_NONLINEAR == "SRGB_NONLINEAR"
EXTENDED_SRGB_LINEAR == "EXTENDED_SRGB_LINEAR"
ColorSpaces == {SRGB_NONLINEAR, EXTENDED_SRGB_LINEAR}
MAILBOX == "MAILBOX"
FIFO == "FIFO"
IMMEDIATE == "IMMEDIATE"
PresentModes == {IMMEDIATE, MAILBOX, FIFO}
TRANSFER == {"TRANSFER"}
VK_LAYER_KHRONOS_validation == "VK_LAYER_KHRONOS_validation"
\* names a layer can report: the validation layer, another layer, an empty name
LayerNames == {VK_LAYER_KHRONOS_validation, "VK_LAYER_LUNARG_api_dump", ""}

Ok(v) == [ok |-> TRUE, val |-> v]
Err(e) == [ok |-> FALSE, val |-> e]

SeqsUpTo(S, lo, hi) == UNION {[1..n -> S] : n \in lo..hi}

Extent2D(w, h) == [width |-> w, height |-> h]

(***************************************************************************)
(* Capability probe: base_configuration.rs 344-405.                        *)
(* Family indices are the 0-based positions of the adapter's family table. *)
(***************************************************************************)
\* Variant: a family is kept when its flags share any bit with the mask.
find_queue_family_index_intersects(adapter, queue_flag) ==
    LET fams == adapter.queue_families
        positions == [i \in 1..Len(fams) |-> i - 1]
    IN  Ok(SelectSeq(positions, LAMBDA idx : queue_flag \cap fams[idx + 1] # {}))

find_queue_family_index(adapter, queue_flag) ==
    LET fams == adapter.queue_families
        positions == [i \in 1..Len(fams) |-> i - 1]
    IN  Ok(SelectSeq(positions, LAMBDA idx : queue_flag \subseteq fams[idx + 1]))

physical_device_suitability(adapter, queue_flag) ==
    IF adapter.device_type = INTEGRATED_GPU
       /\ find_queue_family_index(adapter, queue_flag).ok
    THEN TRUE
    ELSE FALSE

\* The for loop with break: the first position whose adapter is suitable.
create_physical_device(enumerated, queue_flag) ==
    LET suitable == {i \in 1..Len(enumerated) :
                        physical_device_suitability(enumerated[i], queue_flag)}
    IN  IF suitable # {}
        THEN Ok(CHOOSE i \in suitable : \A j \in suitable : i <= j)
        ELSE Err("NotFound")

(***************************************************************************)
(* Validation layers: base_configuration.rs 279-304.  The loop runs once   *)
(* per requested name but never reads the name: each pass looks for a      *)
(* reported layer whose name is not empty.                                 *)
(***************************************************************************)
\* Variant: each requested name is looked up among the reported names.
check_validation_layer_support_by_name(properties, names) ==
    \E n \in 1..Len(names) : \E i \in 1..Len(properties) : properties[i] = names[n]

check_validation_layer_support(properties, names) ==
    LET found == \E i \in 1..Len(properties) : properties[i] # ""
        pass[n \in 0..Len(names)] ==
            IF n = 0 THEN FALSE
            ELSE IF found THEN TRUE ELSE FALSE
    IN  pass[Len(names)]

(***************************************************************************)
(* Queue-creation requests: base_configuration.rs 316-323, one per entry   *)
(* of the resolved family list.                                            *)
(***************************************************************************)
\* Variant: requests for at most the first two families of the list.
DeviceQueueInfos_AtMostTwo(indexes) ==
    [i \in 1..(IF Len(indexes) > 2 THEN 2 ELSE Len(indexes)) |->
        [queue_family_index |-> indexes[i], queue_priorities |-> <<"1.0">>]]

DeviceQueueInfos(indexes) ==
    [i \in 1..Len(indexes) |->
        [queue_family_index |-> indexes[i], queue_priorities |-> <<"1.0">>]]

(***************************************************************************)
(* Queue retrieval: base_configuration.rs 407-442.  A queue handle is the  *)
(* pair (family, 0) that get_device_queue was asked for.  Reading a        *)
(* position the vector does not have panics.                               *)
(***************************************************************************)
create_queue(queue_family_idx) == <<queue_family_idx, 0>>

get_device_queues(indexes, support) ==
    IF Len(indexes) < 1
    THEN Err("index 0 out of bounds")
    ELSE LET graphics == create_queue(indexes[1])
             presentation ==
                 IF Len(indexes) > 1 /\ indexes[1] # indexes[2] /\ support
                 THEN Some(create_queue(indexes[2]))
                 ELSE None
         IN  IF Len(indexes) < 2
             THEN Err("index 1 out of bounds")
             ELSE Ok([graphics_queue |-> graphics,
                      graphics_queue_idx |-> indexes[1],
                      presentation_queue |-> presentation,
                      presentation_queue_idx |-> indexes[2]])

\* Whether get_device_queues asks the surface about the second family.
queries_present_support(indexes) ==
    Len(indexes) > 1 /\ indexes[1] # indexes[2]

(***************************************************************************)
(* Swapchain negotiation: base_configuration.rs 111-144.                   *)
(***************************************************************************)
\* Variant: the preferred format is accepted with any color space.
SurfaceFormat_AnyColorSpace(formats) ==
    LET hits == {i \in 1..Len(formats) : formats[i].format = B8G8R8A8_SRGB}
    IN  IF hits # {}
        THEN formats[CHOOSE i \in hits : \A j \in hits : i <= j]
        ELSE formats[1]

SurfaceFormat(formats) ==
    LET hits == {i \in 1..Len(formats) :
                    /\ formats[i].format = B8G8R8A8_SRGB
                    /\ formats[i].color_space = SRGB_NONLINEAR}
    IN  IF hits # {}
        THEN formats[CHOOSE i \in hits : \A j \in hits : i <= j]
        ELSE formats[1]

\* Variant: without MAILBOX the first listed mode is taken.
PresentMode_FirstListed(modes) ==
    IF \E i \in 1..Len(modes) : modes[i] = MAILBOX THEN MAILBOX ELSE modes[1]

PresentMode(modes) ==
    IF \E i \in 1..Len(modes) : modes[i] = MAILBOX THEN MAILBOX ELSE FIFO

\* u32::clamp (callers pass lo <= hi)
Clamp(v, lo, hi) == IF v < lo THEN lo ELSE IF v > hi THEN hi ELSE v

\* Variant: only the width is replaced, the height stays the current extent's.
SwapExtent_WidthOnly(caps, dims) ==
    [caps.current_extent EXCEPT !.width =
        Clamp(dims.width, caps.min_image_extent.width, caps.max_image_extent.width)]

SwapExtent(caps, dims) ==
    LET start == caps.current_extent
        w == [start EXCEPT !.width =
                 Clamp(dims.width, caps.min_image_extent.width,
                       caps.max_image_extent.width)]
    IN  [w EXCEPT !.height =
            Clamp(dims.height, caps.min_image_extent.height,
                  caps.max_image_extent.height)]

\* Variant: a maximum of 0 is not treated as "unbounded".
DesiredImageCount_IgnoresUnbounded(caps) ==
    IF caps.min_image_count + 1 > caps.max_image_count
    THEN caps.max_image_count
    ELSE caps.min_image_count + 1

\* The u32 addition does not overflow on the counts (<= MaxImageCount) the
\* model's surfaces report.
DesiredImageCount(caps) ==
    LET min_image_count == caps.min_image_count + 1
        max_image_count == caps.max_image_count
    IN  IF max_image_count > 0 /\ min_image_count > max_image_count
        THEN max_image_count
        ELSE min_image_count

(***************************************************************************)
(* Image views and framebuffers: base_configuration.rs 167-191, 473-497.   *)
(***************************************************************************)
create_image_views(images) ==
    [i \in 1..Len(images) |-> [image |-> images[i]]]

\* Variant: the framebuffers come out in the reverse of the view order.
create_framebuffers_reversed(render_pass, image_views, swapchain_extent) ==
    [i \in 1..Len(image_views) |->
        [attachments |-> <<image_views[Len(image_views) + 1 - i]>>,
         render_pass |-> render_pass,
         width |-> swapchain_extent.width,
         height |-> swapchain_extent.height]]

create_framebuffers(render_pass, image_views, swapchain_extent) ==
    [i \in 1..Len(image_views) |->
        [attachments |-> <<image_views[i]>>,
         render_pass |-> render_pass,
         width |-> swapchain_extent.width,
         height |-> swapchain_extent.height]]

(***************************************************************************)
(* The machines the model runs the program on.  One aspect of the machine  *)
(* varies over its whole bounded range while the others keep a default on  *)
(* which the bootstrap can complete.                                       *)
(***************************************************************************)
Adapter == [device_type : DeviceTypes,
            queue_families : SeqsUpTo(QueueFlagSets, 1, MaxFamilies)]
AdapterLists == SeqsUpTo(Adapter, 0, MaxAdapters)

SurfaceFormatKHR == [format : Formats, color_space : ColorSpaces]
FormatLists == SeqsUpTo(SurfaceFormatKHR, 1, MaxFormats)
ModeLists == SeqsUpTo(PresentModes, 1, MaxModes)
LayerLists == SeqsUpTo(LayerNames, 0, MaxLayers)

\* current_extent as the surface reports it: inside or outside the extent bounds
CurrentExtents == {Extent2D(1, 1), Extent2D(MaxExtent + 2, MaxExtent + 2)}
ExtentRange == 1..MaxExtent
WindowSizes == {Extent2D(w, h) : w \in 0..(MaxExtent + 1), h \in 0..(MaxExtent + 1)}

DefaultAdapters ==
    <<[device_type |-> INTEGRATED_GPU, 
      queue_families |-> <<GRAPHICS \cup COMPUTE, GRAPHICS \cup COMPUTE>>]>>
DefaultCaps ==
    [min_image_count |-> 1, max_image_count |-> 0,
     current_extent |-> Extent2D(1, 1),
     min_image_extent |-> Extent2D(1, 1),
     max_image_extent |-> Extent2D(MaxExtent, MaxExtent)]
DefaultFormats == <<[format |-> B8G8R8A8_SRGB, color_space |-> SRGB_NONLINEAR]>>
DefaultModes == <<FIFO>>
DefaultWindow == Extent2D(1, 1)
DefaultLayers == <<VK_LAYER_KHRONOS_validation>>
DefaultMachine ==
    [adapters |-> DefaultAdapters, caps |-> DefaultCaps, formats |-> DefaultFormats,
     modes |-> DefaultModes, dims |-> DefaultWindow, resumes |-> 1,
     layers |-> DefaultLayers]

\* a nonzero maximum is never below the minimum
ImageCountCaps ==
    UNION {{[DefaultCaps EXCEPT !.min_image_count = m, !.max_image_count = x] :
               x \in {0} \cup (m..MaxImageCount)} : m \in 1..MaxImageCount}

ExtentCaps ==
    {[DefaultCaps EXCEPT !.current_extent = c,
                         !.min_image_extent = Extent2D(lw, lh),
                         !.max_image_extent = Extent2D(hw, hh)] :
        c \in CurrentExtents, lw \in ExtentRange, hw \in ExtentRange,
        lh \in ExtentRange, hh \in ExtentRange}

\* one integrated adapter with a family table one longer than in AdapterLists
WideAdapters ==
    {<<[device_type |-> INTEGRATED_GPU, queue_families |-> f]>> :
        f \in SeqsUpTo(QueueFlagSets, 1, MaxFamilies + 1)}

Machines ==
    {[DefaultMachine EXCEPT !.adapters = a] : a \in AdapterLists \cup WideAdapters}
    \cup {[DefaultMachine EXCEPT !.caps = c] : c \in ImageCountCaps}
    \cup {[DefaultMachine EXCEPT !.caps = c, !.dims = d] :
             c \in {e \in ExtentCaps :
                       /\ e.min_image_extent.width <= e.max_image_extent.width
                       /\ e.min_image_extent.height <= e.max_image_extent.height},
             d \in WindowSizes}
    \cup {[DefaultMachine EXCEPT !.formats = f] : f \in FormatLists}
    \cup {[DefaultMachine EXCEPT !.modes = m] : m \in ModeLists}
    \cup {[DefaultMachine EXCEPT !.resumes = r] : r \in 1..MaxResumes}
    \cup {[DefaultMachine EXCEPT !.layers = l] : l \in LayerLists}

(***************************************************************************)
(* Objects of the graphics API and the window, as the logs record them.    *)
(***************************************************************************)
Obj(kind, g, n) == [kind |-> kind, gen |-> g, n |-> n]

Range(s) == {s[i] : i \in 1..Len(s)}

env == <<adapters, surface_capabilities, surface_formats, present_modes,
         window_dimensions, resume_signals, layer_properties, used_layer_names,
         capability_mask>>
setup == <<validation_layers_enabled, device_queue_infos>>
app == <<gen, window, base_config>>
probe == <<physical_device, queue_family_indexes, present_support,
           graphics_queue, presentation_queue>>
config == <<surface_format, present_mode, swap_extent, desired_image_count>>
targets == <<swapchain_images, swapchain_image_views, framebuffers>>

Init ==
    /\ \E m \in Machines :
          /\ adapters = m.adapters
          /\ surface_capabilities = m.caps
          /\ surface_formats = m.formats
          /\ present_modes = m.modes
          /\ window_dimensions = m.dims
          /\ resume_signals = m.resumes
          /\ layer_properties = m.layers
    /\ used_layer_names = <<VK_LAYER_KHRONOS_validation>>
    /\ capability_mask = GRAPHICS
    /\ validation_layers_enabled = None
    /\ device_queue_infos = <<>>
    /\ pc = "start"
    /\ failed_at = "none"
    /\ gen = 0
    /\ window = 0
    /\ base_config = 0
    /\ physical_device = 0
    /\ queue_family_indexes = <<>>
    /\ present_support = None
    /\ graphics_queue = None
    /\ presentation_queue = None
    /\ surface_format = None
    /\ present_mode = None
    /\ swap_extent = None
    /\ desired_image_count = 0
    /\ swapchain_images = <<>>
    /\ swapchain_image_views = <<>>
    /\ framebuffers = <<>>
    /\ created = <<>>
    /\ destroyed = <<>>

\* Variant: the failure is recorded and the stage is entered again.
Panic_Retry(stage) ==
    /\ pc' = stage
    /\ failed_at' = stage

\* An expect() on a failed call, or an index out of bounds: the process panics.
\* The run ends there: what unwinding drops depends on the build's panic
\* strategy, and nothing the bootstrap created is destroyed by it.
Panic(stage) ==
    /\ pc' = "panicked"
    /\ failed_at' = stage

\* A stage that creates one object, or panics because the driver refuses.
CreateStage(stage, kind, next) ==
    /\ \E ok \in BOOLEAN :
          IF ok
          THEN /\ created' = Append(created, Obj(kind, gen, 0))
               /\ pc' = next
               /\ UNCHANGED failed_at
          ELSE /\ Panic(stage)
               /\ UNCHANGED created
    /\ UNCHANGED <<env, setup, app, probe, config, targets, destroyed>>

(***************************************************************************)
(* impl Drop for BaseConfig, base_configuration.rs 677-685: what dropping  *)
(* context g destroys, in the order it destroys it.  ash's Instance and    *)
(* Device and the raw handles have no destructor of their own.             *)
(***************************************************************************)
drop(g) == <<Obj("instance", g, 0), Obj("debug_messenger", g, 0)>>

\* Dropping an Option<BaseConfig> / Option<Window> field.
drop_base_config(b) == IF b = 0 THEN <<>> ELSE drop(b)
drop_window(w) == IF w = 0 THEN <<>> ELSE <<Obj("window", w, 0)>>

(***************************************************************************)
(* Application::resumed, app.rs 18-34: a new window replaces the stored    *)
(* one (which is dropped), then BaseConfig::init runs on it, stage by      *)
(* stage, below.                                                           *)
(***************************************************************************)
Resumed ==
    /\ \/ pc = "start"
       \/ pc = "running" /\ gen < resume_signals
    /\ \E ok \in BOOLEAN :
          IF ok
          THEN /\ gen' = gen + 1
               /\ window' = gen + 1
               /\ created' = Append(created, Obj("window", gen + 1, 0))
               /\ destroyed' = destroyed \o drop_window(window)
               /\ pc' = "create_instance"
               /\ UNCHANGED failed_at
          ELSE /\ Panic("create_window")
               /\ UNCHANGED <<gen, window, created, destroyed>>
    /\ physical_device' = 0
    /\ queue_family_indexes' = <<>>
    /\ present_support' = None
    /\ graphics_queue' = None
    /\ presentation_queue' = None
    /\ surface_format' = None
    /\ present_mode' = None
    /\ swap_extent' = None
    /\ desired_image_count' = 0
    /\ swapchain_images' = <<>>
    /\ swapchain_image_views' = <<>>
    /\ framebuffers' = <<>>
    /\ validation_layers_enabled' = None
    /\ device_queue_infos' = <<>>
    /\ UNCHANGED <<env, base_config>>

\* init 63-64, create_instance 225-277
CreateInstance ==
    /\ pc = "create_instance"
    /\ \E ok \in BOOLEAN :
          IF ok
          THEN /\ validation_layers_enabled' =
                     Some(check_validation_layer_support(layer_properties,
                                                         used_layer_names))
               /\ created' = Append(created, Obj("instance", gen, 0))
               /\ pc' = "create_surface"
               /\ UNCHANGED failed_at
          ELSE /\ Panic("create_instance")
               /\ UNCHANGED <<created, validation_layers_enabled>>
    /\ UNCHANGED <<env, app, probe, config, targets, destroyed, device_queue_infos>>

\* init 66-73
CreateSurface ==
    /\ pc = "create_surface"
    /\ CreateStage("create_surface", "surface", "create_debug_messenger")

\* init 75-79
CreateDebugMessenger ==
    /\ pc = "create_debug_messenger"
    /\ CreateStage("create_debug_messenger", "debug_messenger", "create_physical_device")

\* init 81-82
CreatePhysicalDevice ==
    /\ pc = "create_physical_device"
    /\ LET r == create_physical_device(adapters, GRAPHICS)
       IN  IF r.ok
           THEN /\ physical_device' = r.val
                /\ pc' = "create_device"
                /\ UNCHANGED failed_at
           ELSE /\ Panic("create_physical_device")
                /\ UNCHANGED physical_device
    /\ UNCHANGED <<env, setup, app, queue_family_indexes, present_support, graphics_queue,
                   presentation_queue, config, targets, created, destroyed>>

\* init 84-86, create_device 306-342
CreateDevice ==
    /\ pc = "create_device"
    /\ LET r == find_queue_family_index(adapters[physical_device], GRAPHICS)
       IN  \E ok \in BOOLEAN :
              IF r.ok /\ ok
              THEN /\ queue_family_indexes' = r.val
                   /\ device_queue_infos' = DeviceQueueInfos(r.val)
                   /\ created' = Append(created, Obj("device", gen, 0))
                   /\ pc' = "get_device_queues"
                   /\ UNCHANGED failed_at
              ELSE /\ Panic("create_device")
                   /\ UNCHANGED <<queue_family_indexes, created, device_queue_infos>>
    /\ UNCHANGED <<env, validation_layers_enabled, app, physical_device, present_support, graphics_queue,
                   presentation_queue, config, targets, destroyed>>

\* init 88-97, get_device_queues 411-442
GetDeviceQueues ==
    /\ pc = "get_device_queues"
    /\ \E support \in BOOLEAN :
          /\ queries_present_support(queue_family_indexes) \/ support = FALSE
          /\ LET r == get_device_queues(queue_family_indexes, support)
             IN  IF r.ok
                 THEN /\ graphics_queue' = Some(r.val.graphics_queue)
                      /\ presentation_queue' = r.val.presentation_queue
                      /\ present_support' =
                            IF queries_present_support(queue_family_indexes)
                            THEN Some(support) ELSE None
                      /\ pc' = "negotiate"
                      /\ UNCHANGED failed_at
                 ELSE /\ Panic("get_device_queues")
                      /\ UNCHANGED <<graphics_queue, presentation_queue,
                                     present_support>>
    /\ UNCHANGED <<env, setup, app, physical_device, queue_family_indexes, config,
                   targets, created, destroyed>>

\* init 99-144: the surface is queried and the swapchain configuration resolved
Negotiate ==
    /\ pc = "negotiate"
    /\ \E ok \in BOOLEAN :
          IF ok
          THEN /\ surface_format' = Some(SurfaceFormat(surface_formats))
               /\ present_mode' = Some(PresentMode(present_modes))
               /\ swap_extent' = Some(SwapExtent(surface_capabilities, window_dimensions))
               /\ desired_image_count' = DesiredImageCount(surface_capabilities)
               /\ pc' = "create_swapchain"
               /\ UNCHANGED failed_at
          ELSE /\ Panic("negotiate")
               /\ UNCHANGED config
    /\ UNCHANGED <<env, setup, app, probe, targets, created, destroyed>>

\* init 146-161
CreateSwapchain ==
    /\ pc = "create_swapchain"
    /\ CreateStage("create_swapchain", "swapchain", "create_image_views")

\* init 163-191: the driver returns at least the images asked for; a view
\* creation that fails panics with the earlier views already created
CreateImageViews ==
    /\ pc = "create_image_views"
    /\ \E n \in desired_image_count..(desired_image_count + MaxExtraImages) :
          LET images == [i \in 1..n |-> <<"image", i>>]
              views == create_image_views(images)
          IN  \/ /\ swapchain_images' = images
                 /\ swapchain_image_views' = views
                 /\ created' = created \o
                       [i \in 1..Len(views) |-> Obj("image_view", gen, i)]
                 /\ pc' = "create_render_pass"
                 /\ UNCHANGED failed_at
              \/ /\ \E k \in 0..(Len(views) - 1) :
                       created' = created \o [i \in 1..k |-> Obj("image_view", gen, i)]
                 /\ Panic("create_image_views")
                 /\ UNCHANGED <<swapchain_images, swapchain_image_views>>
    /\ UNCHANGED <<env, setup, app, probe, config, framebuffers, destroyed>>

\* init 193-194, create_render_pass 499-526
CreateRenderPass ==
    /\ pc = "create_render_pass"
    /\ CreateStage("create_render_pass", "render_pass", "create_graphics_pipeline")

\* init 196-197, create_graphics_pipeline 528-650: two shader modules, then
\* the pipeline; each creation may be refused
CreateGraphicsPipeline ==
    /\ pc = "create_graphics_pipeline"
    /\ \/ /\ created' = created \o <<Obj("shader_module", gen, 1),
                                     Obj("shader_module", gen, 2),
                                     Obj("pipeline", gen, 0)>>
          /\ pc' = "create_framebuffers"
          /\ UNCHANGED failed_at
       \/ /\ \E k \in 0..2 :
                created' = created \o [i \in 1..k |-> Obj("shader_module", gen, i)]
          /\ Panic("create_graphics_pipeline")
    /\ UNCHANGED <<env, setup, app, probe, config, targets, destroyed>>

\* init 199, create_framebuffers 473-497
CreateFramebuffers ==
    /\ pc = "create_framebuffers"
    /\ LET fbs == create_framebuffers(Obj("render_pass", gen, 0),
                                      swapchain_image_views, swap_extent[1])
       IN  \/ /\ framebuffers' = fbs
              /\ created' = created \o
                    [i \in 1..Len(fbs) |-> Obj("framebuffer", gen, i)]
              /\ pc' = "create_command_pool"
              /\ UNCHANGED failed_at
           \/ /\ \E k \in 0..(Len(fbs) - 1) :
                    created' = created \o [i \in 1..k |-> Obj("framebuffer", gen, i)]
              /\ Panic("create_framebuffers")
              /\ UNCHANGED framebuffers
    /\ UNCHANGED <<env, setup, app, probe, config, swapchain_images,
                   swapchain_image_views, destroyed>>

\* init 201, create_command_pool 463-466
CreateCommandPool ==
    /\ pc = "create_command_pool"
    /\ CreateStage("create_command_pool", "command_pool", "init_ok")

\* init 205-221 returns Ok; resumed 28-31 stores the context, which drops the
\* context stored before, if any
InitOk ==
    /\ pc = "init_ok"
    /\ base_config' = gen
    /\ destroyed' = destroyed \o drop_base_config(base_config)
    /\ pc' = "running"
    /\ UNCHANGED <<failed_at, gen, window, env, setup, probe, config, targets, created>>

(***************************************************************************)
(* Application::window_event, app.rs 36-54.  Only CloseRequested changes   *)
(* anything: it asks the event loop to exit.                               *)
(***************************************************************************)
WindowEvents == {"Destroyed", "CloseRequested", "RedrawRequested", "Other"}

WindowEvent ==
    /\ pc = "running"
    /\ \E event \in WindowEvents :
          pc' = IF event = "CloseRequested" THEN "exiting" ELSE pc
    /\ UNCHANGED <<failed_at, env, setup, app, probe, config, targets, created, destroyed>>

(***************************************************************************)
(* main, main.rs 8-16: run_app returns, the context is dropped, then the   *)
(* Application (and with it the window) goes out of scope.                 *)
(***************************************************************************)
MainExit ==
    /\ pc = "exiting"
    /\ destroyed' = destroyed \o drop_base_config(base_config) \o drop_window(window)
    /\ base_config' = 0
    /\ window' = 0
    /\ pc' = "exited"
    /\ UNCHANGED <<failed_at, gen, env, setup, probe, config, targets, created>>

Next ==
    \/ Resumed
    \/ CreateInstance
    \/ CreateSurface
    \/ CreateDebugMessenger
    \/ CreatePhysicalDevice
    \/ CreateDevice
    \/ GetDeviceQueues
    \/ Negotiate
    \/ CreateSwapchain
    \/ CreateImageViews
    \/ CreateRenderPass
    \/ CreateGraphicsPipeline
    \/ CreateFramebuffers
    \/ CreateCommandPool
    \/ InitOk
    \/ WindowEvent
    \/ MainExit

Spec == Init /\ [][Next]_vars

(***************************************************************************)
(* The two helper functions on their own, called once on every table,     *)
(* mask and name list of the bounded ranges below.                         *)
(***************************************************************************)
\* every combination of the three capability bits
AllQueueFlags == SUBSET (GRAPHICS \cup COMPUTE \cup TRANSFER)
FamilyTables == SeqsUpTo(AllQueueFlags, 1, MaxFamilies)
RequestLists == SeqsUpTo(LayerNames, 0, MaxLayers)

InitFunctions ==
    /\ \/ /\ pc = "find_queue_family_index"
          /\ \E f \in FamilyTables :
                adapters = <<[device_type |-> INTEGRATED_GPU, queue_families |-> f]>>
          /\ capability_mask \in AllQueueFlags
          /\ layer_properties = DefaultLayers
          /\ used_layer_names = <<VK_LAYER_KHRONOS_validation>>
       \/ /\ pc = "check_validation_layer_support"
          /\ layer_properties \in LayerLists
          /\ used_layer_names \in RequestLists
          /\ adapters = DefaultAdapters
          /\ capability_mask = GRAPHICS
    /\ surface_capabilities = DefaultCaps
    /\ surface_formats = DefaultFormats
    /\ present_modes = DefaultModes
    /\ window_dimensions = DefaultWindow
    /\ resume_signals = 1
    /\ validation_layers_enabled = None
    /\ device_queue_infos = <<>>
    /\ failed_at = "none"
    /\ gen = 0
    /\ window = 0
    /\ base_config = 0
    /\ physical_device = 1
    /\ queue_family_indexes = <<>>
    /\ present_support = None
    /\ graphics_queue = None
    /\ presentation_queue = None
    /\ surface_format = None
    /\ present_mode = None
    /\ swap_extent = None
    /\ desired_image_count = 0
    /\ swapchain_images = <<>>
    /\ swapchain_image_views = <<>>
    /\ framebuffers = <<>>
    /\ created = <<>>
    /\ destroyed = <<>>

\* find_queue_family_index 390-405 on the adapter and the mask
FindQueueFamilyIndex ==
    /\ pc = "find_queue_family_index"
    /\ LET r == find_queue_family_index(adapters[physical_device], capability_mask)
       IN  /\ queue_family_indexes' = IF r.ok THEN r.val ELSE <<>>
           /\ pc' = IF r.ok THEN "find_returned_ok" ELSE "find_returned_err"
    /\ UNCHANGED <<failed_at, env, setup, app, physical_device, present_support,
                   graphics_queue, presentation_queue, config, targets, created,
                   destroyed>>

\* check_validation_layer_support 279-304 on the reported and requested names
CheckValidationLayerSupport ==
    /\ pc = "check_validation_layer_support"
    /\ validation_layers_enabled' =
          Some(check_validation_layer_support(layer_properties, used_layer_names))
    /\ pc' = "check_returned"
    /\ UNCHANGED <<failed_at, env, device_queue_infos, app, probe, config, targets,
                   created, destroyed>>

NextFunctions ==
    \/ FindQueueFamilyIndex
    \/ CheckValidationLayerSupport

SpecFunctions == InitFunctions /\ [][NextFunctions]_vars

(***************************************************************************)
(* Properties.                                                             *)
(***************************************************************************)
\* Positions of the adapters the specification calls suitable for GRAPHICS.
IntegratedWithGraphics ==
    {i \in 1..Len(adapters) :
        /\ adapters[i].device_type = INTEGRATED_GPU
        /\ \E f \in 1..Len(adapters[i].queue_families) :
              GRAPHICS \subseteq adapters[i].queue_families[f]}

ProbeActed == physical_device # 0 \/ failed_at = "create_physical_device"
QueuesActed == graphics_queue # None \/ failed_at = "get_device_queues"
Negotiated == surface_format # None
Bootstrapped == pc \in {"running", "exiting", "exited"}

\* C1: adapter selection returns the first adapter, in enumeration order, that
\* is integrated and has a family with the GRAPHICS flag, and reports NotFound
\* (no adapter) when the list holds none.
C1_FirstIntegratedGraphicsAdapter ==
    ProbeActed =>
        IF IntegratedWithGraphics = {}
        THEN physical_device = 0 /\ failed_at = "create_physical_device"
        ELSE /\ physical_device \in IntegratedWithGraphics
             /\ \A j \in IntegratedWithGraphics : physical_device <= j

\* C2: an adapter is judged suitable exactly when it is integrated and one of
\* its families contains the mask; an integrated adapter without such a family
\* is never selected.
C2_SuitableIffIntegratedWithFamily ==
    ProbeActed =>
        /\ \A i \in 1..Len(adapters) :
              physical_device_suitability(adapters[i], GRAPHICS)
                  <=> i \in IntegratedWithGraphics
        /\ physical_device # 0 => physical_device \in IntegratedWithGraphics

\* C3: the resolved image count is max_image_count when that is nonzero and
\* below min_image_count + 1, and min_image_count + 1 otherwise.
C3_ImageCount ==
    Negotiated =>
        LET m == surface_capabilities.min_image_count
            x == surface_capabilities.max_image_count
        IN  /\ (x = 0) => desired_image_count = m + 1
            /\ (x > 0 /\ m + 1 > x) => desired_image_count = x
            /\ (x > 0 /\ m + 1 <= x) => desired_image_count = m + 1

C3_Witness ==
    /\ Negotiated
    /\ surface_capabilities.max_image_count > 0
    /\ surface_capabilities.min_image_count + 1 > surface_capabilities.max_image_count
    /\ desired_image_count = surface_capabilities.max_image_count

\* C4: the resolved extent is the window size clamped, per dimension, to the
\* surface's extent bounds, whatever the surface's current extent is.
C4_ExtentClamped ==
    Negotiated =>
        LET lo == surface_capabilities.min_image_extent
            hi == surface_capabilities.max_image_extent
            d == window_dimensions
            Within(v, a, b) == IF v < a THEN a ELSE IF v > b THEN b ELSE v
        IN  swap_extent = Some(Extent2D(Within(d.width, lo.width, hi.width),
                                   Within(d.height, lo.height, hi.height)))

C4_Witness ==
    /\ Negotiated
    /\ window_dimensions.width > surface_capabilities.max_image_extent.width
    /\ window_dimensions.height < surface_capabilities.min_image_extent.height
    /\ surface_capabilities.current_extent.height
          > surface_capabilities.max_image_extent.height
    /\ swap_extent = Some(Extent2D(surface_capabilities.max_image_extent.width,
                                   surface_capabilities.min_image_extent.height))

\* The 8-bit BGRA formats.
Bgra8Formats == {B8G8R8A8_SRGB, B8G8R8A8_UNORM}

\* C5 as stated: when the list holds an 8-bit BGRA format paired with the
\* SRGB-nonlinear color space, such a pair is the chosen surface format;
\* otherwise the first listed pair is.
C5_AnyBgra8Preferred ==
    Negotiated =>
        IF \E i \in 1..Len(surface_formats) :
              /\ surface_formats[i].format \in Bgra8Formats
              /\ surface_formats[i].color_space = SRGB_NONLINEAR
        THEN /\ surface_format[1].format \in Bgra8Formats
             /\ surface_format[1].color_space = SRGB_NONLINEAR
        ELSE surface_format = Some(surface_formats[1])

\* C5 amended: when the list holds the pair (B8G8R8A8_SRGB, SRGB_NONLINEAR),
\* that pair is the chosen surface format; otherwise the first listed pair is.
C5_SrgbBgra8Preferred ==
    Negotiated =>
        IF \E i \in 1..Len(surface_formats) :
              surface_formats[i] =
                  [format |-> B8G8R8A8_SRGB, color_space |-> SRGB_NONLINEAR]
        THEN surface_format =
                 Some([format |-> B8G8R8A8_SRGB, color_space |-> SRGB_NONLINEAR])
        ELSE surface_format = Some(surface_formats[1])

C5_Witness ==
    /\ Negotiated
    /\ Len(surface_formats) > 1
    /\ surface_formats[1].format = B8G8R8A8_SRGB
    /\ surface_formats[1].color_space # SRGB_NONLINEAR
    /\ surface_format = Some(surface_formats[2])
    /\ surface_format = Some([format |-> B8G8R8A8_SRGB, color_space |-> SRGB_NONLINEAR])

\* C6: MAILBOX is chosen when the mode list holds it; otherwise FIFO is chosen,
\* listed or not.
C6_PresentMode ==
    Negotiated =>
        IF MAILBOX \in Range(present_modes)
        THEN present_mode = Some(MAILBOX)
        ELSE present_mode = Some(FIFO)

C6_Witness ==
    /\ Negotiated
    /\ MAILBOX \notin Range(present_modes)
    /\ FIFO \notin Range(present_modes)
    /\ present_mode = Some(FIFO)

\* Number of objects of a kind that context g created.
CountCreated(kind, g) ==
    Cardinality({i \in 1..Len(created) :
                    created[i].kind = kind /\ created[i].gen = g})

\* C7: after a successful bootstrap there are as many image views and as many
\* framebuffers as the swapchain returned images, and framebuffer i wraps
\* image view i, which wraps swapchain image i.
C7_ViewsAndFramebuffersPerImage ==
    Bootstrapped =>
        /\ Len(swapchain_image_views) = Len(swapchain_images)
        /\ Len(framebuffers) = Len(swapchain_images)
        /\ CountCreated("image_view", gen) = Len(swapchain_images)
        /\ CountCreated("framebuffer", gen) = Len(swapchain_images)
        /\ \A i \in 1..Len(swapchain_images) :
              /\ swapchain_image_views[i].image = swapchain_images[i]
              /\ framebuffers[i].attachments = <<swapchain_image_views[i]>>

C7_Witness ==
    /\ Bootstrapped
    /\ Len(swapchain_images) # desired_image_count
    /\ Len(framebuffers) = Len(swapchain_images)

\* Position of an object in a log (0 when absent).
Position(log, o) ==
    IF \E i \in 1..Len(log) : log[i] = o
    THEN CHOOSE i \in 1..Len(log) : log[i] = o
    ELSE 0

\* The objects of the graphics API that the bootstrap creates.
GraphKinds == {"pipeline", "render_pass", "framebuffer", "image_view", "swapchain",
               "surface", "device", "debug_messenger", "instance"}

\* C8: teardown destroys in the reverse of the construction order: of two
\* destroyed objects of a context the one created later is destroyed first;
\* in particular the debug messenger goes before the instance.
C8_ReverseOrderTeardown ==
    \A i, j \in 1..Len(destroyed) :
        (/\ i < j
         /\ destroyed[i].kind \in GraphKinds
         /\ destroyed[j].kind \in GraphKinds
         /\ destroyed[i].gen = destroyed[j].gen)
        => Position(created, destroyed[i]) > Position(created, destroyed[j])

\* C9: once a bootstrapped context was closed and torn down, every object the
\* bootstrap created has been destroyed.
C9_WholeGraphTornDown ==
    pc = "exited" =>
        \A i \in 1..Len(created) :
            created[i].kind \in GraphKinds => created[i] \in Range(destroyed)

\* C10: queue retrieval yields the graphics queue of the family at position 0,
\* and a presentation queue exactly when a second, distinct family is in the
\* list and supports presentation; otherwise the presentation queue is None.
C10_QueueRetrieval ==
    (QueuesActed /\ Len(queue_family_indexes) >= 1) =>
        /\ graphics_queue = Some(create_queue(queue_family_indexes[1]))
        /\ IF /\ Len(queue_family_indexes) > 1
              /\ queue_family_indexes[1] # queue_family_indexes[2]
              /\ present_support = Some(TRUE)
           THEN presentation_queue = Some(create_queue(queue_family_indexes[2]))
           ELSE presentation_queue = None

\* the running init call has created its logical device
DeviceCreated == physical_device # 0 /\ Obj("device", gen, 0) \in Range(created)

\* 0-based positions of the selected adapter's families that contain GRAPHICS.
MatchingFamilies ==
    LET fams == adapters[physical_device].queue_families
    IN  {f - 1 : f \in {g \in 1..Len(fams) : GRAPHICS \subseteq fams[g]}}

\* C11 as stated: device creation makes one request for the graphics family
\* and a second one only when a distinct presentation family was identified,
\* so at most two, each with one queue of priority 1.0, however many families
\* of the adapter match the mask.
C11_AtMostTwoRequests ==
    (DeviceCreated /\ MatchingFamilies # {}) =>
        /\ Len(device_queue_infos) \in {1, 2}
        /\ \A i \in 1..Len(device_queue_infos) :
              device_queue_infos[i].queue_priorities = <<"1.0">>
        /\ graphics_queue # None =>
              (Len(device_queue_infos) = 2 <=> presentation_queue # None)

\* C11 amended: device creation makes one request per family of the resolved
\* list, that is per family of the adapter whose flags contain the mask, in
\* ascending order, each with one queue of priority 1.0.
C11_OneRequestPerMatchingFamily ==
    DeviceCreated =>
        /\ Len(device_queue_infos) = Cardinality(MatchingFamilies)
        /\ \A i \in 1..Len(device_queue_infos) :
              /\ device_queue_infos[i].queue_family_index \in MatchingFamilies
              /\ device_queue_infos[i].queue_priorities = <<"1.0">>
        /\ \A i, j \in 1..Len(device_queue_infos) :
              i < j => device_queue_infos[i].queue_family_index
                          < device_queue_infos[j].queue_family_index

C11_Witness ==
    /\ DeviceCreated
    /\ Len(device_queue_infos) > 2
    /\ Len(device_queue_infos) = Cardinality(MatchingFamilies)

\* The stages of BaseConfig::init in the order init runs them.
BootstrapStages ==
    <<"create_instance", "create_surface", "create_debug_messenger",
      "create_physical_device", "create_device", "get_device_queues",
      "negotiate", "create_swapchain", "create_image_views",
      "create_render_pass", "create_graphics_pipeline", "create_framebuffers",
      "create_command_pool">>

StageNumber(stage) ==
    CHOOSE i \in 1..Len(BootstrapStages) : BootstrapStages[i] = stage

\* The stage that creates objects of a kind.
KindStage(kind) ==
    CASE kind = "instance" -> "create_instance"
      [] kind = "surface" -> "create_surface"
      [] kind = "debug_messenger" -> "create_debug_messenger"
      [] kind = "device" -> "create_device"
      [] kind = "swapchain" -> "create_swapchain"
      [] kind = "image_view" -> "create_image_views"
      [] kind = "render_pass" -> "create_render_pass"
      [] kind = "shader_module" -> "create_graphics_pipeline"
      [] kind = "pipeline" -> "create_graphics_pipeline"
      [] kind = "framebuffer" -> "create_framebuffers"
      [] kind = "command_pool" -> "create_command_pool"

StageFailed == failed_at \in Range(BootstrapStages)

\* Nothing of the running bootstrap stems from a stage after the failed one.
NoLaterStageRan ==
    LET at == StageNumber(failed_at)
    IN  /\ \A o \in Range(created) :
              (o.gen = gen /\ o.kind # "window") =>
                  StageNumber(KindStage(o.kind)) <= at
        /\ at <= StageNumber("create_physical_device") => physical_device = 0
        /\ at <= StageNumber("create_device") => queue_family_indexes = <<>>
        /\ at <= StageNumber("get_device_queues") => graphics_queue = None
        /\ at <= StageNumber("negotiate") => surface_format = None
        /\ at <= StageNumber("create_image_views") => swapchain_image_views = <<>>
        /\ at <= StageNumber("create_framebuffers") => framebuffers = <<>>

C13_FamiliesContainingMask ==
    pc \in {"find_returned_ok", "find_returned_err"} =>
        LET fams == adapters[physical_device].queue_families
            idxs == queue_family_indexes
        IN  /\ pc = "find_returned_ok"
            /\ \A f \in 1..Len(fams) :
                  (capability_mask \subseteq fams[f]) <=>
                      (\E i \in 1..Len(idxs) : idxs[i] = f - 1)
            /\ \A i \in 1..Len(idxs) : idxs[i] \in 0..(Len(fams) - 1)
            /\ \A i, j \in 1..Len(idxs) : i < j => idxs[i] < idxs[j]

C13_Witness ==
    /\ pc = "find_returned_ok"
    /\ queue_family_indexes = <<1>>
    /\ LET fams == adapters[physical_device].queue_families
       IN  /\ Len(fams) = 2
           /\ capability_mask \cap fams[1] # {}
           /\ ~(capability_mask \subseteq fams[1])

\* C14: check_validation_layer_support never reads the requested names: with
\* at least one requested name it is true exactly when some reported layer
\* has a non-empty name; with no requested name it is false.
C14_AnyNonEmptyLayerName ==
    pc = "check_returned" =>
        validation_layers_enabled =
            Some(/\ Len(used_layer_names) > 0
                 /\ \E i \in 1..Len(layer_properties) : layer_properties[i] # "")

C14_Witness ==
    /\ pc = "check_returned"
    /\ validation_layers_enabled = Some(TRUE)
    /\ used_layer_names = <<VK_LAYER_KHRONOS_validation>>
    /\ VK_LAYER_KHRONOS_validation \notin Range(layer_properties)

\* C15: on every resolved family list with at least one index, also a list
\* of exactly one, get_device_queues reads no position outside the list: it
\* does not fail, it reports the graphics queue of the first family, and the
\* bootstrap goes on to swapchain negotiation.
C15_RetrievalStaysInsideList ==
    (QueuesActed /\ Len(queue_family_indexes) >= 1) =>
        /\ failed_at # "get_device_queues"
        /\ graphics_queue = Some(create_queue(queue_family_indexes[1]))

\* Contexts whose init ran to its end and whose Drop has not run.
AliveContexts ==
    {g \in 1..gen :
        /\ Obj("command_pool", g, 0) \in Range(created)
        /\ Obj("instance", g, 0) \notin Range(destroyed)
        /\ g = gen => pc # "init_ok"}

\* C16: whatever resumed and close-requested signals arrive, at most one
\* bootstrapped context is alive, and a window that held a bootstrapped
\* context is dropped only after that context was torn down.
C16_ContextTornDownBeforeWindow ==
    /\ Cardinality(AliveContexts) <= 1
    /\ \A g \in 1..gen :
          (/\ Obj("command_pool", g, 0) \in Range(created)
           /\ Obj("window", g, 0) \in Range(destroyed)) =>
              /\ Obj("instance", g, 0) \in Range(destroyed)
              /\ Position(destroyed, Obj("instance", g, 0))
                    < Position(destroyed, Obj("window", g, 0))

====
